---- MODULE Spec2Model ----
(***************************************************************************)
(* Workflow progress and broadcast core of the PINN enterprise platform.   *)
(*                                                                         *)
(*  - WorkflowManager (pinn-workers-deploy/src/services/workflow-manager.js)*)
(*    drives one workflow id through the mocked pipeline and persists each *)
(*    update in WORKFLOWS_KV.                                              *)
(*  - WebSocketManager (opensource-pinn-platform/cloudflare/src/services/  *)
(*    websocket-manager.js) is the Durable Object that keeps the session   *)
(*    map and sends messages to the sessions.                              *)
(*  - index.js holds the HTTP handlers that call them.                     *)
(*                                                                         *)
(* Time stamps (created_at, updated_at, connectedAt, lastActivity) and the *)
(* contents of the generated results are not modelled.                     *)
(***************************************************************************)
EXTENDS Integers, Sequences, FiniteSets, TLC

\* ------------------------------------------------------------------ bounds
MaxStoreFaults == 1   \* KV get/put failures injected in one behaviour
MaxWorkflows   == 1   \* simulations submitted in one behaviour
MaxDelivered   == 4   \* messages put on the sockets in one behaviour
MaxBroadcasts  == 1   \* broadcastToWorkflow calls in one behaviour

WorkflowIds == {"w1", "w2"}
SessionIds  == {1, 2}

\* ------------------------------------------------------- workflow records
Null      == -1              \* JS null / undefined in a numeric field
NoMetrics == -1

TerminalStatus == {"completed", "failed"}

\* WORKFLOWS_KV.get(id) === null
NotFound ==
  [status |-> "not_found", progress |-> Null, current_step |-> "null",
   metrics |-> NoMetrics, estimated_remaining_time |-> Null]

\* an initial record that already says processing (a plausible slip)
InitialRecordStarted ==
  [status |-> "processing", progress |-> 0, current_step |-> "use_case_generation",
   metrics |-> NoMetrics, estimated_remaining_time |-> Null]

\* index.js 720-736: the record written by POST /api/v2/simulations
InitialRecord ==
  [status |-> "initiated", progress |-> 0, current_step |-> "use_case_generation",
   metrics |-> NoMetrics, estimated_remaining_time |-> Null]

TotalEstimated == 300

\* Math.round(totalEstimated * (1.0 - progress / 100.0)) for an integer progress
RemainingTime(progress) == ((TotalEstimated * (100 - progress)) + 50) \div 100

\* lines 222-230: `progress && progress < 100` is false for null and for 0
EstimatedRemaining(progress) ==
  IF progress # Null /\ progress # 0 /\ progress < 100
    THEN RemainingTime(progress)
    ELSE 0

\* a progress of null leaves the stored progress as it is (a plausible slip:
\* writing the null through as 0)
UpdatedProgressReset(old, progress) == IF progress # Null THEN progress ELSE 0

UpdatedProgress(old, progress) == IF progress # Null THEN progress ELSE old

\* the record without `workflow.status = status` (a plausible slip)
UpdatedRecordNoStatus(workflow, status, progress, step, metrics) ==
  [status |-> workflow.status,
   progress |-> UpdatedProgress(workflow.progress, progress),
   current_step |-> IF step # "null" THEN step ELSE workflow.current_step,
   metrics |-> IF metrics # NoMetrics THEN metrics ELSE workflow.metrics,
   estimated_remaining_time |-> EstimatedRemaining(progress)]

\* lines 214-230: the record updateWorkflowStatus computes from the one it read
UpdatedRecord(workflow, status, progress, step, metrics) ==
  [status |-> status,
   progress |-> UpdatedProgress(workflow.progress, progress),
   current_step |-> IF step # "null" THEN step ELSE workflow.current_step,
   metrics |-> IF metrics # NoMetrics THEN metrics ELSE workflow.metrics,
   estimated_remaining_time |-> EstimatedRemaining(progress)]

\* ------------------------------------------------------------------ state
VARIABLES
  store,        \* WORKFLOWS_KV: workflow id -> record, or NotFound
  results,      \* RESULTS_KV: workflow id -> TRUE once the results are stored
  pc,           \* position of processWorkflow(id) (and of the POST handler)
  loopProgress, \* the loop variable `progress` of the running simulate* loop
  storeFaults,  \* KV failures injected so far
  sessions,     \* this.sessions of the Durable Object named id, in Map order
  sessWid,      \* session.workflowId
  sock,         \* state of the server socket of a session
  timer,        \* TRUE while the setInterval of startPeriodicUpdates is active
  inbox,        \* messages that webSocket.send put on the session's socket
  failedSends,  \* sessions for which sendMessage logged a failed send
  nBroadcasts,  \* broadcastToWorkflow calls so far
  lastBroadcast,\* the last broadcastToWorkflow call and how it ended
  lateJoin      \* history: s joined when the record of its id was terminal

wfVars == <<store, results, pc, loopProgress, storeFaults>>
wsVars == <<sessions, sessWid, sock, timer, inbox, failedSends, nBroadcasts,
            lastBroadcast, lateJoin>>
vars   == <<store, results, pc, loopProgress, storeFaults, sessions, sessWid,
            sock, timer, inbox, failedSends, nBroadcasts, lastBroadcast,
            lateJoin>>

\* ---------------------------------------------------------- orchestrator
\* outcomes of the two KV calls inside updateWorkflowStatus
StoreOutcomes == {"ok", "get_fails", "put_fails"}

\* updateWorkflowStatus that starts from the initial record when none is
\* stored (a plausible slip: `workflowData ? JSON.parse(workflowData) : {...}`)
UpdateWorkflowStatusUpsert(st, workflowId, status, progress, step, metrics, outcome) ==
  IF outcome = "get_fails" THEN st
  ELSE IF outcome = "put_fails" THEN st
  ELSE [st EXCEPT ![workflowId] =
          UpdatedRecord(IF st[workflowId] = NotFound THEN InitialRecord
                        ELSE st[workflowId],
                        status, progress, step, metrics)]

\* updateWorkflowStatus that puts the status first and the other fields in a
\* second put, which is the one that fails (a plausible slip)
UpdateWorkflowStatusPartial(st, workflowId, status, progress, step, metrics, outcome) ==
  IF outcome = "get_fails" THEN st
  ELSE IF st[workflowId] = NotFound THEN st
  ELSE IF outcome = "put_fails"
    THEN [st EXCEPT ![workflowId] = [st[workflowId] EXCEPT !.status = status]]
  ELSE [st EXCEPT ![workflowId] =
          UpdatedRecord(st[workflowId], status, progress, step, metrics)]

\* lines 206-241: the store after updateWorkflowStatus(workflowId, ...).  A
\* missing record returns early; an exception of get or put is caught and
\* logged, and the store is left as it was.
UpdateWorkflowStatus(st, workflowId, status, progress, step, metrics, outcome) ==
  IF outcome = "get_fails" THEN st
  ELSE IF st[workflowId] = NotFound THEN st
  ELSE IF outcome = "put_fails" THEN st
  ELSE [st EXCEPT ![workflowId] =
          UpdatedRecord(st[workflowId], status, progress, step, metrics)]

\* index.js 768-793: the answer of GET /api/v2/simulations/:id/status
StatusEndpoint(st, workflowId, outcome) ==
  IF outcome = "get_fails" THEN [code |-> 500, body |-> NotFound]
  ELSE IF st[workflowId] = NotFound THEN [code |-> 404, body |-> NotFound]
  ELSE [code |-> 200,
        body |-> [st[workflowId] EXCEPT
                    !.estimated_remaining_time =
                       IF @ = Null THEN 0 ELSE @]]

\* one call of updateWorkflowStatus, with the KV failure it may meet
DoUpdate(w, status, progress, step, metrics) ==
  \E outcome \in StoreOutcomes :
    /\ outcome # "ok" => storeFaults < MaxStoreFaults
    /\ storeFaults' = IF outcome = "ok" THEN storeFaults ELSE storeFaults + 1
    /\ store' = UpdateWorkflowStatus(store, w, status, progress, step, metrics, outcome)

\* a loop that hands the next loop a start of 10 (a plausible slip: the header
\* of simulateProblemAnalysis copied into the later loops)
LoopNextCopiedHeader(w, here, p, to, inc, after, afterFrom) ==
  IF p + inc <= to
    THEN /\ pc' = [pc EXCEPT ![w] = here]
         /\ loopProgress' = [loopProgress EXCEPT ![w] = p + inc]
    ELSE /\ pc' = [pc EXCEPT ![w] = after]
         /\ loopProgress' = [loopProgress EXCEPT ![w] = 10]

\* a loop that counts down (a plausible slip: `progress -= inc`)
LoopNextCountsDown(w, here, p, to, inc, after, afterFrom) ==
  /\ pc' = [pc EXCEPT ![w] = here]
  /\ loopProgress' = [loopProgress EXCEPT ![w] = p - inc]

\* the `for (progress = from; progress <= to; progress += inc)` loops: the
\* position after the body ran with loop variable p
LoopNext(w, here, p, to, inc, after, afterFrom) ==
  IF p + inc <= to
    THEN /\ pc' = [pc EXCEPT ![w] = here]
         /\ loopProgress' = [loopProgress EXCEPT ![w] = p + inc]
    ELSE /\ pc' = [pc EXCEPT ![w] = after]
         /\ loopProgress' = [loopProgress EXCEPT ![w] = afterFrom]

\* index.js 700-765: POST /api/v2/simulations stores the initial record and
\* then runs processWorkflow; a failing put answers 500 and starts nothing
Submit(w) ==
  /\ pc[w] = "idle"
  /\ Cardinality({v \in WorkflowIds : pc[v] # "idle"}) < MaxWorkflows
  /\ \E outcome \in {"ok", "put_fails"} :
       /\ outcome # "ok" => storeFaults < MaxStoreFaults
       /\ storeFaults' = IF outcome = "ok" THEN storeFaults ELSE storeFaults + 1
       /\ IF outcome = "ok"
            THEN /\ store' = [store EXCEPT ![w] = InitialRecord]
                 /\ pc' = [pc EXCEPT ![w] = "start"]
            ELSE /\ store' = store
                 /\ pc' = [pc EXCEPT ![w] = "rejected"]
  /\ UNCHANGED <<results, loopProgress>>
  /\ UNCHANGED wsVars

\* line 17
ProcessStart(w) ==
  /\ pc[w] = "start"
  /\ DoUpdate(w, "processing", 10, "initializing", NoMetrics)
  /\ pc' = [pc EXCEPT ![w] = "analysis"]
  /\ loopProgress' = [loopProgress EXCEPT ![w] = 10]
  /\ UNCHANGED results
  /\ UNCHANGED wsVars

\* lines 43-48
SimulateProblemAnalysis(w) ==
  /\ pc[w] = "analysis"
  /\ DoUpdate(w, "processing", loopProgress[w], "problem_analysis", NoMetrics)
  /\ LoopNext(w, "analysis", loopProgress[w], 30, 5, "mesh", 30)
  /\ UNCHANGED results
  /\ UNCHANGED wsVars

\* lines 50-55
SimulateMeshGeneration(w) ==
  /\ pc[w] = "mesh"
  /\ DoUpdate(w, "processing", loopProgress[w], "mesh_generation", NoMetrics)
  /\ LoopNext(w, "mesh", loopProgress[w], 50, 5, "training", 50)
  /\ UNCHANGED results
  /\ UNCHANGED wsVars

\* lines 57-75; the metrics object is represented by its epoch
SimulatePINNTraining(w) ==
  /\ pc[w] = "training"
  /\ DoUpdate(w, "processing", loopProgress[w], "pinn_training",
              (loopProgress[w] - 50) * 100)
  /\ LoopNext(w, "training", loopProgress[w], 80, 2, "validation", 80)
  /\ UNCHANGED results
  /\ UNCHANGED wsVars

\* lines 77-82
SimulateModelValidation(w) ==
  /\ pc[w] = "validation"
  /\ DoUpdate(w, "processing", loopProgress[w], "model_validation", NoMetrics)
  /\ LoopNext(w, "validation", loopProgress[w], 90, 2, "results90", 90)
  /\ UNCHANGED results
  /\ UNCHANGED wsVars

\* line 85
GenerateResults90(w) ==
  /\ pc[w] = "results90"
  /\ DoUpdate(w, "processing", 90, "generating_results", NoMetrics)
  /\ pc' = [pc EXCEPT ![w] = "results95"]
  /\ UNCHANGED <<results, loopProgress>>
  /\ UNCHANGED wsVars

\* line 90
GenerateResults95(w) ==
  /\ pc[w] = "results95"
  /\ DoUpdate(w, "processing", 95, "creating_visualization", NoMetrics)
  /\ pc' = [pc EXCEPT ![w] = "store_results"]
  /\ UNCHANGED <<results, loopProgress>>
  /\ UNCHANGED wsVars

\* lines 92-115: createVisualization (which may put into the R2 bucket) and
\* RESULTS_KV.put; either can throw, and the exception leaves the step
StoreResults(w) ==
  /\ pc[w] = "store_results"
  /\ \/ /\ results' = [results EXCEPT ![w] = TRUE]
        /\ pc' = [pc EXCEPT ![w] = "results100"]
     \/ /\ results' = results
        /\ pc' = [pc EXCEPT ![w] = "catch"]
  /\ UNCHANGED <<store, loopProgress, storeFaults>>
  /\ UNCHANGED wsVars

\* line 117
GenerateResults100(w) ==
  /\ pc[w] = "results100"
  /\ DoUpdate(w, "processing", 100, "completed", NoMetrics)
  /\ pc' = [pc EXCEPT ![w] = "complete"]
  /\ UNCHANGED <<results, loopProgress>>
  /\ UNCHANGED wsVars

\* where processWorkflow goes after `completed` was written (a plausible
\* slip: the failure update in a `finally` instead of a `catch`)
AfterCompletedFinally == "catch"

AfterCompleted == "returned"

\* the last update without its progress argument, as in the catch block (a
\* plausible slip)
MarkCompletedNoProgress(w) ==
  /\ pc[w] = "complete"
  /\ DoUpdate(w, "completed", Null, "finished", NoMetrics)
  /\ pc' = [pc EXCEPT ![w] = AfterCompleted]
  /\ UNCHANGED <<results, loopProgress>>
  /\ UNCHANGED wsVars

\* line 35
MarkCompleted(w) ==
  /\ pc[w] = "complete"
  /\ DoUpdate(w, "completed", 100, "finished", NoMetrics)
  /\ pc' = [pc EXCEPT ![w] = AfterCompleted]
  /\ UNCHANGED <<results, loopProgress>>
  /\ UNCHANGED wsVars

\* lines 37-40: the catch block; `error: ${error.message}` goes to current_step
CatchFault(w) ==
  /\ pc[w] = "catch"
  /\ DoUpdate(w, "failed", Null, "error", NoMetrics)
  /\ pc' = [pc EXCEPT ![w] = "thrown"]
  /\ UNCHANGED <<results, loopProgress>>
  /\ UNCHANGED wsVars

\* the updateWorkflowStatus call processWorkflow makes at position `at` with
\* loop variable p: status, progress and step (lines 17, 45, 52, 59, 79, 85,
\* 90, 117, 35, 39)
IssuedUpdate(at, p) ==
  CASE at = "start"      -> [status |-> "processing", progress |-> 10, step |-> "initializing"]
    [] at = "analysis"   -> [status |-> "processing", progress |-> p, step |-> "problem_analysis"]
    [] at = "mesh"       -> [status |-> "processing", progress |-> p, step |-> "mesh_generation"]
    [] at = "training"   -> [status |-> "processing", progress |-> p, step |-> "pinn_training"]
    [] at = "validation" -> [status |-> "processing", progress |-> p, step |-> "model_validation"]
    [] at = "results90"  -> [status |-> "processing", progress |-> 90, step |-> "generating_results"]
    [] at = "results95"  -> [status |-> "processing", progress |-> 95, step |-> "creating_visualization"]
    [] at = "results100" -> [status |-> "processing", progress |-> 100, step |-> "completed"]
    [] at = "complete"   -> [status |-> "completed", progress |-> 100, step |-> "finished"]
    [] at = "catch"      -> [status |-> "failed", progress |-> Null, step |-> "error"]
    [] OTHER             -> [status |-> "none", progress |-> Null, step |-> "null"]

\* the values of progress a caller can pass to updateWorkflowStatus
ProgressInputs == 0..100

\* lines 206-241: updateWorkflowStatus(w, 'processing', p) called on its own,
\* for a record that is stored and not terminal
CallUpdate(w, p) ==
  /\ pc[w] = "start"
  /\ store' = UpdateWorkflowStatus(store, w, "processing", p, "null", NoMetrics, "ok")
  /\ UNCHANGED <<results, pc, loopProgress, storeFaults>>
  /\ UNCHANGED wsVars

\* the store works again: the failures counted so far are forgotten, so that
\* any number of get and put calls can fail in one run
ForgetFaults ==
  /\ storeFaults > 0
  /\ storeFaults' = 0
  /\ UNCHANGED <<store, results, pc, loopProgress>>
  /\ UNCHANGED wsVars

ProcessWorkflow(w) ==
  \/ ProcessStart(w)
  \/ SimulateProblemAnalysis(w)
  \/ SimulateMeshGeneration(w)
  \/ SimulatePINNTraining(w)
  \/ SimulateModelValidation(w)
  \/ GenerateResults90(w)
  \/ GenerateResults95(w)
  \/ StoreResults(w)
  \/ GenerateResults100(w)
  \/ MarkCompleted(w)
  \/ CatchFault(w)

\* ------------------------------------------------------- WebSocketManager
\* the outcomes of Math.random() that are followed: the progress
\* (Math.random() * 100) of a status reply and, for a periodic update, the
\* progress with the step that getRandomStep (lines 160-169) draws
RandomProgress == {95}

RandomUpdates == {<<95, "problem_analysis">>, <<5, "pinn_training">>}

\* `type` of the messages handed to broadcastToWorkflow
BroadcastTypes == {"training_metrics"}

\* inbound message types (lines 83-100)
InboundTypes == {"ping", "subscribe_metrics", "request_status"}

Msg(type, workflowId, status, progress, step, n) ==
  [type |-> type, workflowId |-> workflowId, status |-> status,
   progress |-> progress, step |-> step, n |-> n]

\* lines 50-55
ConnectionEstablished(w) == Msg("connection_established", w, "none", Null, "none", 0)

\* lines 85-88
Pong == Msg("pong", "none", "none", Null, "none", 0)

\* lines 118-131: the mock status, always 'processing' in 'pinn_training'
WorkflowStatusMsg(w, r) == Msg("workflow_status", w, "processing", r, "pinn_training", 0)

\* lines 146-155
WorkflowProgressMsg(w, r, step) == Msg("workflow_progress", w, "none", r, step, 0)

SeqToSet(q) == {q[i] : i \in 1..Len(q)}

SeqRemove(q, x) == SelectSeq(q, LAMBDA y : y # x)

\* this.sessions.get(sessionId) !== undefined, in the Durable Object the
\* session was stored in
InSessions(s) == \E i \in WorkflowIds : s \in SeqToSet(sessions[i])

\* what one run of sends has done so far
SendState == [inbox |-> inbox, failed |-> failedSends, threw |-> FALSE]

\* sendMessage without its try/catch (a plausible slip): the failed send
\* rejects the promise of the caller
SendMessageNoCatch(st, s, message) ==
  IF sock[s] = "open"
    THEN [st EXCEPT !.inbox[s] = Append(@, message)]
    ELSE [st EXCEPT !.threw = TRUE]

\* lines 103-112: webSocket.send throws on a dead socket; the exception is
\* caught and logged, nothing else happens
SendMessage(st, s, message) ==
  IF sock[s] = "open"
    THEN [st EXCEPT !.inbox[s] = Append(@, message)]
    ELSE [st EXCEPT !.failed = @ \cup {s}]

\* generateSessionId (lines 181-183): an id no session had before
FreshSessionId ==
  CHOOSE s \in SessionIds :
    sock[s] = "unused" /\ \A t \in SessionIds : sock[t] = "unused" => s <= t

RECURSIVE SumLen(_, _)
SumLen(f, S) ==
  IF S = {} THEN 0
  ELSE LET x == CHOOSE y \in S : TRUE IN Len(f[x]) + SumLen(f, S \ {x})

\* messages put on the sockets so far
Delivered == SumLen(inbox, SessionIds)

\* the sends of one handler to `targets` stay within what is followed
Room(targets) ==
  Delivered + Cardinality({s \in targets : sock[s] = "open"}) <= MaxDelivered

\* the other end of the pair a socket end belongs to
Peer(e) == [e EXCEPT !.end = IF @ = "client" THEN "server" ELSE "client"]

\* index.js 971-990: the route makes a pair for connection n, hands its
\* server end to the Durable Object in the init of fetch and answers the
\* HTTP client with its client end; the response of fetch is dropped
RouteSockets(n) ==
  [passed   |-> [maker |-> "route", n |-> n, end |-> "server"],
   returned |-> [maker |-> "route", n |-> n, end |-> "client"]]

\* lines 21-30: fetch makes a pair of its own for connection n, whatever the
\* caller passed, gives its server end to handleSession and puts its client
\* end in the response
FetchSockets(n, passed) ==
  [accepted |-> [maker |-> "manager", n |-> n, end |-> "server"],
   response |-> [maker |-> "manager", n |-> n, end |-> "client"]]

\* the socket stored in the session of connection n (line 43)
SessionSocket(n) == FetchSockets(n, RouteSockets(n).passed).accepted

\* what arrives at the socket end the HTTP client of connection n holds: the
\* messages sent on its peer
ClientReceives(n) ==
  IF Peer(RouteSockets(n).returned) = SessionSocket(n) THEN inbox[n] ELSE <<>>

\* lines 13-73 (and index.js 964-991): the Durable Object named w accepts a
\* socket, stores the session, confirms and starts the periodic updates
HandleSession(w) ==
  /\ \E s \in SessionIds : sock[s] = "unused"
  /\ Delivered < MaxDelivered
  /\ LET s == FreshSessionId
         st == [inbox |-> [inbox EXCEPT ![s] = <<ConnectionEstablished(w)>>],
                failed |-> failedSends, threw |-> FALSE]
     IN /\ sock' = [sock EXCEPT ![s] = "open"]
        /\ sessions' = [sessions EXCEPT ![w] = Append(@, s)]
        /\ sessWid' = [sessWid EXCEPT ![s] = w]
        /\ inbox' = st.inbox
        /\ timer' = [timer EXCEPT ![s] = TRUE]
        /\ lateJoin' = [lateJoin EXCEPT ![s] = store[w].status \in TerminalStatus]
  /\ UNCHANGED <<failedSends, nBroadcasts, lastBroadcast>>
  /\ UNCHANGED wfVars

\* lines 75-101: the 'message' listener of session s.  'subscribe_metrics'
\* only stores session.subscriptions, which nothing reads and which is not
\* followed here; a type without a case does nothing
HandleMessage(s, type) ==
  /\ sock[s] # "unused"
  /\ Room({s})
  /\ IF ~InSessions(s)
       THEN UNCHANGED <<inbox, failedSends>>
       ELSE CASE type = "ping" ->
                   LET st == SendMessage(SendState, s, Pong)
                   IN /\ inbox' = st.inbox
                      /\ failedSends' = st.failed
              [] type = "request_status" ->
                   \E r \in RandomProgress :
                     LET st == SendMessage(SendState, s, WorkflowStatusMsg(sessWid[s], r))
                     IN /\ inbox' = st.inbox
                        /\ failedSends' = st.failed
              [] OTHER -> UNCHANGED <<inbox, failedSends>>
  /\ UNCHANGED <<sessions, sessWid, sock, timer, nBroadcasts, lastBroadcast,
                 lateJoin>>
  /\ UNCHANGED wfVars

\* the transport of session s breaks; the socket events come later, if at all
SocketBreaks(s) ==
  /\ sock[s] = "open"
  /\ sock' = [sock EXCEPT ![s] = "dead"]
  /\ UNCHANGED <<sessions, sessWid, timer, inbox, failedSends, nBroadcasts,
                 lastBroadcast,
                 lateJoin>>
  /\ UNCHANGED wfVars

\* a removal that drops the whole group of the session (a plausible slip:
\* deleting by workflow id instead of by session id)
DeleteSessionGroup(s) ==
  [i \in WorkflowIds |-> IF s \in SeqToSet(sessions[i]) THEN <<>> ELSE sessions[i]]

\* a removal from an array registry by splice(indexOf(sessionId), 1) (a
\* plausible slip: indexOf gives -1 for an absent id and splice(-1, 1) drops
\* the last entry)
DeleteSessionSplice(s) ==
  [i \in WorkflowIds |->
     IF s \in SeqToSet(sessions[i]) THEN SeqRemove(sessions[i], s)
     ELSE IF i = sessWid[s] /\ sessions[i] # <<>>
       THEN SubSeq(sessions[i], 1, Len(sessions[i]) - 1)
       ELSE sessions[i]]

\* this.sessions.delete(sessionId)
DeleteSession(s) == [i \in WorkflowIds |-> SeqRemove(sessions[i], s)]

\* lines 62-64: the 'close' listener of session s
\* a 'close' listener that also gives up the workflow of the session (a
\* plausible slip: treating the last watcher's departure as a cancel)
CloseEventCancels(s) ==
  /\ sock[s] # "unused"
  /\ sock' = [sock EXCEPT ![s] = "dead"]
  /\ sessions' = DeleteSession(s)
  /\ pc' = [pc EXCEPT ![sessWid[s]] = "thrown"]
  /\ UNCHANGED <<sessWid, timer, inbox, failedSends, nBroadcasts, lastBroadcast,
                 lateJoin>>
  /\ UNCHANGED <<store, results, loopProgress, storeFaults>>

\* lines 62-65: the 'close' listener of session s
CloseEvent(s) ==
  /\ sock[s] # "unused"
  /\ sock' = [sock EXCEPT ![s] = "dead"]
  /\ sessions' = DeleteSession(s)
  /\ UNCHANGED <<sessWid, timer, inbox, failedSends, nBroadcasts, lastBroadcast,
                 lateJoin>>
  /\ UNCHANGED wfVars

\* lines 66-69: the 'error' listener of session s
ErrorEvent(s) ==
  /\ sock[s] # "unused"
  /\ sock' = [sock EXCEPT ![s] = "dead"]
  /\ sessions' = DeleteSession(s)
  /\ UNCHANGED <<sessWid, timer, inbox, failedSends, nBroadcasts, lastBroadcast,
                 lateJoin>>
  /\ UNCHANGED wfVars

\* a tick that sends on the socket it captured when the interval was set,
\* without looking the session up (a plausible slip)
PeriodicTickCaptured(s) ==
  /\ timer[s]
  /\ Room({s})
  /\ \E u \in RandomUpdates :
       LET st == SendMessage(SendState, s, WorkflowProgressMsg(sessWid[s], u[1], u[2]))
       IN /\ inbox' = st.inbox
          /\ failedSends' = st.failed
          /\ UNCHANGED timer
  /\ UNCHANGED <<sessions, sessWid, sock, nBroadcasts, lastBroadcast,
                 lateJoin>>
  /\ UNCHANGED wfVars

\* lines 137-158: one tick of the interval of session s
PeriodicTick(s) ==
  /\ timer[s]
  /\ Room({s})
  /\ IF ~InSessions(s)
       THEN /\ timer' = [timer EXCEPT ![s] = FALSE]
            /\ UNCHANGED <<inbox, failedSends>>
       ELSE \E u \in RandomUpdates :
              LET st == SendMessage(SendState, s, WorkflowProgressMsg(sessWid[s], u[1], u[2]))
              IN /\ inbox' = st.inbox
                 /\ failedSends' = st.failed
                 /\ UNCHANGED timer
  /\ UNCHANGED <<sessions, sessWid, sock, nBroadcasts, lastBroadcast,
                 lateJoin>>
  /\ UNCHANGED wfVars

\* the loop that stops after its first send (a plausible slip: `return`
\* inside the loop)
RECURSIVE BroadcastLoopFirstOnly(_, _, _, _)
BroadcastLoopFirstOnly(list, workflowId, message, st) ==
  IF list = <<>> THEN st
  ELSE IF sessWid[Head(list)] = workflowId
    THEN SendMessage(st, Head(list), message)
    ELSE BroadcastLoopFirstOnly(Tail(list), workflowId, message, st)

\* the loop without the test of session.workflowId (a plausible slip)
RECURSIVE BroadcastLoopNoFilter(_, _, _, _)
BroadcastLoopNoFilter(list, workflowId, message, st) ==
  IF list = <<>> THEN st
  ELSE BroadcastLoopNoFilter(Tail(list), workflowId, message,
                             SendMessage(st, Head(list), message))

\* lines 189-193: the loop over the Map, in insertion order; every
\* sendMessage runs up to its end before the next one starts
RECURSIVE BroadcastLoop(_, _, _, _)
BroadcastLoop(list, workflowId, message, st) ==
  IF list = <<>> THEN st
  ELSE LET s == Head(list)
       IN BroadcastLoop(Tail(list), workflowId, message,
                        IF sessWid[s] = workflowId
                          THEN SendMessage(st, s, message)
                          ELSE st)

\* lines 186-196: broadcastToWorkflow called on the Durable Object named inst
BroadcastToWorkflow(inst, workflowId, type) ==
  /\ nBroadcasts < MaxBroadcasts
  /\ Room({s \in SeqToSet(sessions[inst]) : sessWid[s] = workflowId})
  /\ LET message == Msg(type, workflowId, "none", Null, "none", nBroadcasts + 1)
         st == BroadcastLoop(sessions[inst], workflowId, message, SendState)
     IN /\ inbox' = st.inbox
        /\ failedSends' = st.failed
        /\ lastBroadcast' = [outcome |-> IF st.threw THEN "error" ELSE "ok",
                              inst |-> inst, workflowId |-> workflowId]
  /\ nBroadcasts' = nBroadcasts + 1
  /\ UNCHANGED <<sessions, sessWid, sock, timer, lateJoin>>
  /\ UNCHANGED wfVars

\* ---------------------------------------------------------- specification
Init ==
  /\ store = [w \in WorkflowIds |-> NotFound]
  /\ results = [w \in WorkflowIds |-> FALSE]
  /\ pc = [w \in WorkflowIds |-> "idle"]
  /\ loopProgress = [w \in WorkflowIds |-> 0]
  /\ storeFaults = 0
  /\ sessions = [w \in WorkflowIds |-> <<>>]
  /\ sessWid = [s \in SessionIds |-> "none"]
  /\ sock = [s \in SessionIds |-> "unused"]
  /\ timer = [s \in SessionIds |-> FALSE]
  /\ inbox = [s \in SessionIds |-> <<>>]
  /\ failedSends = {}
  /\ nBroadcasts = 0
  /\ lastBroadcast = [outcome |-> "none", inst |-> "none", workflowId |-> "none"]
  /\ lateJoin = [s \in SessionIds |-> FALSE]

NextWF == \E w \in WorkflowIds : Submit(w) \/ ProcessWorkflow(w)

NextWS ==
  \/ \E w \in WorkflowIds : HandleSession(w)
  \/ \E s \in SessionIds, type \in InboundTypes : HandleMessage(s, type)
  \/ \E s \in SessionIds : SocketBreaks(s)
  \/ \E s \in SessionIds : CloseEvent(s)
  \/ \E s \in SessionIds : ErrorEvent(s)
  \/ \E s \in SessionIds : PeriodicTick(s)
  \/ \E inst \in WorkflowIds, w \in WorkflowIds, type \in BroadcastTypes :
       BroadcastToWorkflow(inst, w, type)

\* the deployed handlers, while the transport of every session holds:
\* nothing in the repository calls broadcastToWorkflow
NextSys ==
  \/ NextWF
  \/ \E w \in WorkflowIds : HandleSession(w)
  \/ \E s \in SessionIds, type \in InboundTypes : HandleMessage(s, type)
  \/ \E s \in SessionIds : PeriodicTick(s)

\* the workflow id whose run is followed together with the session operations
ObservedId == "w1"

\* one workflow run next to every session operation: connect, inbound
\* message, close, error
NextObs ==
  \/ Submit(ObservedId)
  \/ ProcessWorkflow(ObservedId)
  \/ \E w \in WorkflowIds : HandleSession(w)
  \/ \E s \in SessionIds, type \in InboundTypes : HandleMessage(s, type)
  \/ \E s \in SessionIds : CloseEvent(s)
  \/ \E s \in SessionIds : ErrorEvent(s)

\* the operations on the Map of sessions: accept, inbound message, close,
\* error and broadcast, with sockets that stay sound and no timer firing
NextReg ==
  \/ \E w \in WorkflowIds : HandleSession(w)
  \/ \E s \in SessionIds, type \in InboundTypes : HandleMessage(s, type)
  \/ \E s \in SessionIds : CloseEvent(s)
  \/ \E s \in SessionIds : ErrorEvent(s)
  \/ \E inst \in WorkflowIds, w \in WorkflowIds, type \in BroadcastTypes :
       BroadcastToWorkflow(inst, w, type)

\* one workflow run with a store that can fail any number of times
NextOutage ==
  \/ Submit(ObservedId)
  \/ ProcessWorkflow(ObservedId)
  \/ ForgetFaults

\* a stored record and updateWorkflowStatus called with every progress value
NextEst ==
  \/ Submit(ObservedId)
  \/ \E p \in ProgressInputs : CallUpdate(ObservedId, p)

\* the operations on the Map of sessions and the interval of every session
NextTick ==
  \/ NextReg
  \/ \E s \in SessionIds : PeriodicTick(s)

Next == NextWF \/ NextWS

\* the orchestrator and the store alone
SpecWF == Init /\ [][NextWF]_vars

\* the Durable Objects and their sessions alone
SpecWS == Init /\ [][NextWS]_vars

\* a workflow run with the sessions that watch it
SpecSys == Init /\ [][NextSys]_vars

\* the registry of sessions under accept, message, close, error and broadcast
SpecReg == Init /\ [][NextReg]_vars

\* one workflow run under a store outage of any length
SpecOutage == Init /\ [][NextOutage]_vars

\* updateWorkflowStatus under every progress value
SpecEst == Init /\ [][NextEst]_vars

\* the registry of sessions with the intervals, on sockets that stay sound
SpecTick == Init /\ [][NextTick]_vars

\* a workflow run next to the session operations
SpecObs == Init /\ [][NextObs]_vars

\* the Durable Objects with the interval of every session firing again and
\* again (setInterval at line 138; nothing is assumed of close and error)
SpecLive ==
  /\ Init
  /\ [][NextWS]_vars
  /\ \A s \in SessionIds : WF_vars(PeriodicTick(s))

Spec == Init /\ [][Next]_vars

\* ------------------------------------------------------------- properties
IsTerminal(w) == store[w].status \in TerminalStatus

\* sessions in the Map of the Durable Object named w
Registered(w) == SeqToSet(sessions[w])

\* the pipeline order of the steps a progress message can name (lines 161-167)
PipelineSteps == <<"problem_analysis", "mesh_generation", "pinn_training",
                   "model_validation", "results_generation">>

StepRank(step) == CHOOSE i \in 1..Len(PipelineSteps) : PipelineSteps[i] = step

\* messages of inbox q that carry a state of workflow w
StateMessages(q, w) ==
  SelectSeq(q, LAMBDA m : m.workflowId = w
                          /\ m.type \in {"workflow_progress", "workflow_status"})

\* C1: in the records persisted for one workflow id, progress never
\* decreases as long as the stored status is not terminal
C1_ProgressNonDecreasing ==
  [][\A w \in WorkflowIds :
       (store[w] # NotFound /\ ~IsTerminal(w))
         => store'[w].progress >= store[w].progress]_vars

\* the failure update (progress = null) was persisted after progress 95
C1_Witness ==
  \E w \in WorkflowIds : store[w].status = "failed" /\ store[w].progress = 95

C3_NeverAheadOfStore ==
  \A s \in SessionIds : \A i \in 1..Len(inbox[s]) :
    LET m == inbox[s][i]
    IN (m.type \in {"workflow_progress", "workflow_status"}
        /\ store[m.workflowId] # NotFound)
         => m.progress <= store[m.workflowId].progress

\* C4: every update that is persisted for a workflow id is delivered to every
\* session registered for that id at that moment
C4_PersistedIsDelivered ==
  [][\A w \in WorkflowIds :
       (store[w] # NotFound /\ store'[w] # store[w])
         => \A s \in Registered(w) :
              sock[s] = "open"
                => /\ Len(inbox'[s]) = Len(inbox[s]) + 1
                   /\ inbox'[s][Len(inbox'[s])].workflowId = w
                   /\ inbox'[s][Len(inbox'[s])].progress = store'[w].progress]_vars

\* C5: when processWorkflow ends with a fault, the stored record is FAILED
\* and carries the error text
C5_FaultAlwaysFails ==
  \A w \in WorkflowIds :
    pc[w] = "thrown"
      => store[w].status = "failed" /\ store[w].current_step = "error"

TerminalCount(q, w) ==
  Len(SelectSeq(q, LAMBDA m : m.type = "workflow_terminal" /\ m.workflowId = w))

\* C6: when the record of a workflow id becomes terminal, every session
\* registered for the id has received exactly one workflow_terminal message,
\* and no session ever holds two
C6_ExactlyOneTerminal ==
  [][\A w \in WorkflowIds :
       /\ (IsTerminal(w)' /\ ~IsTerminal(w))
            => \A s \in Registered(w) :
                 sock[s] = "open" => TerminalCount(inbox'[s], w) = 1
       /\ \A s \in SessionIds : TerminalCount(inbox'[s], w) <= 1]_vars

\* the snapshot of the stored record of workflow w
Snapshot(w) ==
  Msg("workflow_status", w, store[w].status, store[w].progress,
      store[w].current_step, 0)

\* C7: a session that joins after its workflow completed or failed is sent,
\* right after the confirmation, a snapshot equal to the stored record
C7_LateJoinerSnapshot ==
  \A s \in SessionIds :
    (lateJoin[s] /\ Len(inbox[s]) >= 2)
      => /\ inbox[s][1].type = "connection_established"
         /\ inbox[s][2] = Snapshot(sessWid[s])

\* C8: the progress messages of one workflow id reach a session in the order
\* of the pipeline: a later message never names an earlier step
C8_PipelineOrder ==
  \A s \in SessionIds :
    LET q == SelectSeq(inbox[s], LAMBDA m : m.type = "workflow_progress"
                                            /\ m.workflowId = sessWid[s])
    IN \A i \in 1..Len(q) : \A j \in i..Len(q) :
         StepRank(q[i].step) <= StepRank(q[j].step)

\* C9: a broadcast ends without an error and puts the message on the socket
\* of every registered session of the workflow id whose socket is open,
\* whatever happened to the sends to the other sessions
C9_BroadcastIsolated ==
  [][nBroadcasts' # nBroadcasts
       => /\ lastBroadcast'.outcome = "ok"
          /\ \A s \in SeqToSet(sessions[lastBroadcast'.inst]) :
               (sessWid[s] = lastBroadcast'.workflowId /\ sock[s] = "open")
                 => /\ Len(inbox'[s]) = Len(inbox[s]) + 1
                    /\ inbox'[s][Len(inbox'[s])].n = nBroadcasts'
                    /\ inbox'[s][Len(inbox'[s])].workflowId
                         = lastBroadcast'.workflowId]_vars

GotBroadcast(s) == \E i \in 1..Len(inbox[s]) : inbox[s][i].n = nBroadcasts

\* a broadcast met the dead socket of s, which is earlier in the Map than t,
\* and still reached t
C9_Witness ==
  /\ nBroadcasts > 0
  /\ lastBroadcast.outcome = "ok"
  /\ \E s \in SessionIds, t \in SessionIds :
       /\ s < t
       /\ s \in Registered(lastBroadcast.inst)
       /\ t \in Registered(lastBroadcast.inst)
       /\ sessWid[s] = lastBroadcast.workflowId
       /\ sessWid[t] = lastBroadcast.workflowId
       /\ s \in failedSends
       /\ ~GotBroadcast(s)
       /\ GotBroadcast(t)

\* C10: a session whose outbound send failed is no longer in the session map
C10_FailedSendPrunes ==
  \A s \in failedSends : ~InSessions(s)

\* a session that was accepted and has been removed from the Map
Removed(s) == sock[s] # "unused" /\ ~InSessions(s)

\* C11: a step that removes session s leaves the registry entry, the socket
\* and the messages of every other session as they were, and a broadcast
\* that comes after a removal reaches every remaining session of its
\* workflow id whose socket is open
C11_RemovalLeavesOthers ==
  [][/\ \A s \in SessionIds :
          (InSessions(s) /\ ~InSessions(s)')
            => /\ \A i \in WorkflowIds : sessions'[i] = SeqRemove(sessions[i], s)
               /\ \A t \in SessionIds \ {s} :
                    /\ sessWid'[t] = sessWid[t]
                    /\ sock'[t] = sock[t]
                    /\ inbox'[t] = inbox[t]
     /\ (nBroadcasts' # nBroadcasts /\ \E s \in SessionIds : Removed(s))
          => \A t \in SeqToSet(sessions[lastBroadcast'.inst]) :
               (sessWid[t] = lastBroadcast'.workflowId /\ sock[t] = "open")
                 => inbox'[t] # inbox[t]]_vars

\* s joined before t for the same id, was removed without a failed send, and
\* the broadcast that reached t came after the removal (s did not get it)
C11_Witness ==
  \E s \in SessionIds, t \in SessionIds :
    /\ s < t
    /\ sessWid[s] = sessWid[t]
    /\ Removed(s)
    /\ s \notin failedSends
    /\ ~GotBroadcast(s)
    /\ InSessions(t)
    /\ GotBroadcast(t)

C14_RemovalIdempotent ==
  \A s \in SessionIds :
    sock[s] # "unused"
      => LET once == DeleteSession(s)
         IN /\ ~InSessions(s) => once = sessions
            /\ \A i \in WorkflowIds :
                 /\ s \notin SeqToSet(once[i])
                 /\ SeqRemove(once[i], s) = once[i]

\* s is gone from the Map while another session of the same id is still in it
C14_Witness ==
  \E s \in SessionIds, t \in SessionIds :
    /\ Removed(s)
    /\ sessWid[t] = sessWid[s]
    /\ InSessions(t)

\* C18: the progress values of the workflow_progress and workflow_status
\* messages a session is sent for its workflow id never decrease
C18_ObservedProgressMonotone ==
  \A s \in SessionIds :
    LET q == StateMessages(inbox[s], sessWid[s])
    IN \A i \in 1..Len(q) : \A j \in i..Len(q) : q[i].progress <= q[j].progress

\* processWorkflow of w has been called and has neither returned nor thrown
Running(w) == pc[w] \notin {"idle", "rejected", "returned", "thrown"}

C15_DeadSessionPruned ==
  \A s \in SessionIds : (InSessions(s) /\ sock[s] = "dead") ~> ~InSessions(s)

\* C16: a run of processWorkflow that returned, with no failure of the store
\* on the way, leaves the record completed with progress 100
C16_FaultFreeRunCompletes ==
  \A w \in WorkflowIds :
    (pc[w] = "returned" /\ storeFaults = 0)
      => /\ store[w].status = "completed"
         /\ store[w].progress = 100

\* a run went through all five steps and returned with no failure at all
C16_Witness ==
  \E w \in WorkflowIds :
    /\ pc[w] = "returned"
    /\ storeFaults = 0
    /\ results[w]
    /\ store[w].current_step = "finished"

\* the record of w written by this step has the status, the step and the
\* progress of the update processWorkflow makes at its position (the progress
\* stays when the update gives none), whatever was skipped before
StoredCarriesLatest(w) ==
  LET u == IssuedUpdate(pc[w], loopProgress[w])
  IN /\ store'[w].status = u.status
     /\ store'[w].current_step = u.step
     /\ store'[w].progress =
          IF u.progress = Null THEN store[w].progress ELSE u.progress

\* the last message on the socket of s after this step is new and has the
\* state of the record of w written by this step
SentCarriesLatest(s, w) ==
  /\ Len(inbox'[s]) = Len(inbox[s]) + 1
  /\ LET m == inbox'[s][Len(inbox'[s])]
     IN /\ m.workflowId = w
        /\ m.status = store'[w].status
        /\ m.step = store'[w].current_step
        /\ m.progress = store'[w].progress

\* C17: whenever a record is rewritten, after a skipped update or not, the
\* record stored and the message sent to the open sessions of its id carry
\* the state of the update being made, not an earlier one
C17_NextPutCarriesLatest ==
  [][\A w \in WorkflowIds :
       (store[w] # NotFound /\ store'[w] # store[w])
         => /\ StoredCarriesLatest(w)
            /\ \A s \in Registered(w) :
                 sock[s] = "open" => SentCarriesLatest(s, w)]_vars

\* C19: processWorkflow has not returned or thrown while the record is still
\* initiated or processing
C19_FinishedMeansTerminal ==
  \A w \in WorkflowIds :
    pc[w] \in {"returned", "thrown"}
      => store[w].status \notin {"initiated", "processing"}

\* C20: an id that was never stored has no record; the status endpoint
\* answers 404 for it and updateWorkflowStatus on it leaves the store as it is
C20_UnknownIdNotFound ==
  \A w \in WorkflowIds :
    /\ pc[w] \in {"idle", "rejected"} <=> store[w] = NotFound
    /\ store[w] = NotFound
         => /\ StatusEndpoint(store, w, "ok").code = 404
            /\ \A at \in {"start", "training", "complete", "catch"} :
                 LET u == IssuedUpdate(at, 60)
                 IN UpdateWorkflowStatus(store, w, u.status, u.progress,
                                         u.step, NoMetrics, "ok") = store
    /\ store[w] # NotFound => StatusEndpoint(store, w, "ok").code = 200

\* one id has a completed record and answers 200 while the other was never
\* stored and answers 404
C20_Witness ==
  \E w \in WorkflowIds, v \in WorkflowIds :
    /\ store[w].status = "completed"
    /\ StatusEndpoint(store, w, "ok").code = 200
    /\ store[v] = NotFound
    /\ StatusEndpoint(store, v, "ok").code = 404

\* the values of current_step in the order processWorkflow writes them
StoredSteps == <<"use_case_generation", "initializing", "problem_analysis",
                 "mesh_generation", "pinn_training", "model_validation",
                 "generating_results", "creating_visualization", "completed",
                 "finished">>

StoredRank(step) == CHOOSE i \in 1..Len(StoredSteps) : StoredSteps[i] = step

\* the pipeline step of a value of current_step: 1 ANALYSIS, 2 MESH,
\* 3 TRAINING, 4 VALIDATION, 5 FINALIZE, and 0 for a value outside the pipeline
Stage(step) ==
  CASE step = "problem_analysis" -> 1
    [] step = "mesh_generation"  -> 2
    [] step = "pinn_training"    -> 3
    [] step = "model_validation" -> 4
    [] step \in {"generating_results", "creating_visualization", "completed"} -> 5
    [] OTHER -> 0

\* the upper bound of the progress of each pipeline step
StageUpper == <<30, 50, 80, 90, 100>>

\* this step rewrites the record of w with another value of current_step
StepChanges(w) ==
  /\ store[w] # NotFound
  /\ store'[w].current_step # store[w].current_step

\* C22 as stated: the persisted steps follow the pipeline order, and the
\* first record of a step is persisted when the stored record is the upper
\* bound record of the step before
C22_PipelineAfterUpperBound ==
  [][\A w \in WorkflowIds :
       (StepChanges(w) /\ Stage(store[w].current_step) > 0
                       /\ Stage(store'[w].current_step) > 0)
         => /\ Stage(store'[w].current_step) >= Stage(store[w].current_step)
            /\ Stage(store'[w].current_step) > Stage(store[w].current_step)
                 => /\ Stage(store'[w].current_step) = Stage(store[w].current_step) + 1
                    /\ store[w].progress = StageUpper[Stage(store[w].current_step)]]_vars

\* C22: the values of current_step are persisted in the order processWorkflow
\* writes them and never go back, and the first record persisted for a
\* pipeline step has a progress of at least the upper bound of the step before
C22_PipelineOrderKept ==
  [][\A w \in WorkflowIds :
       (StepChanges(w) /\ store'[w].current_step # "error")
         => /\ StoredRank(store'[w].current_step) > StoredRank(store[w].current_step)
            /\ Stage(store'[w].current_step) > 1
                 => store'[w].progress >= StageUpper[Stage(store'[w].current_step) - 1]]_vars

\* the first training record is the stored one, in a run in which an update
\* before it was lost to a failure of the store
C22_Witness ==
  \E w \in WorkflowIds :
    /\ storeFaults > 0
    /\ pc[w] = "training"
    /\ loopProgress[w] = 52
    /\ store[w].current_step = "pinn_training"
    /\ store[w].progress = 50
    /\ store[w].metrics = 0

\* this step writes the first record of w
Created(w) == store[w] = NotFound /\ store'[w] # NotFound

\* this step rewrites the record of w with another status
StatusChanges(w) ==
  /\ store[w] # NotFound
  /\ store'[w].status # store[w].status

\* C23 as stated: the record is created initiated with progress 0, and its
\* status only goes from initiated to processing and from processing to
\* completed (with progress 100) or failed
C23_StatusChain ==
  [][\A w \in WorkflowIds :
       /\ Created(w) => store'[w].status = "initiated" /\ store'[w].progress = 0
       /\ StatusChanges(w)
            => \/ store[w].status = "initiated" /\ store'[w].status = "processing"
               \/ /\ store[w].status = "processing"
                  /\ store'[w].status \in TerminalStatus
                  /\ store'[w].status = "completed" => store'[w].progress = 100]_vars

\* C23: the record is created initiated with progress 0; afterwards its
\* status never goes back to initiated nor from a terminal status to another
\* one, and completed is written with progress 100; initiated can be followed
\* by a terminal status directly
C23_StatusForward ==
  [][\A w \in WorkflowIds :
       /\ Created(w) => store'[w].status = "initiated" /\ store'[w].progress = 0
       /\ StatusChanges(w)
            => /\ store[w].status \in {"initiated", "processing"}
               /\ store'[w].status \in {"processing"} \cup TerminalStatus
               /\ store'[w].status = "completed" => store'[w].progress = 100]_vars

\* a run in which no training update reached the store ended with the record
\* completed at progress 100
C23_Witness ==
  \E w \in WorkflowIds :
    /\ pc[w] = "returned"
    /\ store[w].status = "completed"
    /\ store[w].metrics = NoMetrics
    /\ store[w].progress = 100

C25_EstimateFormula ==
  \A w \in WorkflowIds :
    store[w].status = "processing"
      => store[w].estimated_remaining_time = RemainingTime(store[w].progress)

\* C27: a stored record that says completed has progress 100 and a remaining
\* time of 0
C27_CompletedIsFull ==
  \A w \in WorkflowIds :
    store[w].status = "completed"
      => /\ store[w].progress = 100
         /\ store[w].estimated_remaining_time = 0

\* the record was completed by the last put of a run that lost an update
C27_Witness ==
  \E w \in WorkflowIds :
    /\ storeFaults > 0
    /\ store[w].status = "completed"
    /\ store[w].current_step = "finished"
    /\ store[w].estimated_remaining_time = 0

\* C28: an update that meets a failure of the store leaves every record as
\* it was and processWorkflow goes on to its next position, never to the
\* catch block; an update of an id without a record changes nothing either
C28_StoreFailureContained ==
  [][/\ (storeFaults' > storeFaults)
          => /\ store' = store
             /\ \A w \in WorkflowIds :
                  /\ pc'[w] = "catch" => pc[w] = "catch"
                  /\ pc'[w] = "thrown" => pc[w] \in {"catch", "thrown"}
             /\ \E w \in WorkflowIds :
                  pc'[w] # pc[w] \/ loopProgress'[w] # loopProgress[w]
     /\ \A w \in WorkflowIds, outcome \in StoreOutcomes :
          store[w] = NotFound
            => UpdateWorkflowStatus(store, w, "processing", 10, "initializing",
                                    NoMetrics, outcome) = store]_vars

\* a run that lost an update to the store went on and completed
C28_Witness ==
  \E w \in WorkflowIds :
    /\ storeFaults > 0
    /\ pc[w] = "returned"
    /\ store[w].status = "completed"
    /\ results[w]

\* session s is in the Map of the Durable Objects of two workflow ids and
\* holds a broadcast of each
InTwoGroups(s) ==
  \E i \in WorkflowIds, j \in WorkflowIds :
    /\ i # j
    /\ s \in Registered(i) /\ s \in Registered(j)
    /\ \E m \in 1..Len(inbox[s]), n \in 1..Len(inbox[s]) :
         /\ inbox[s][m].type \in BroadcastTypes /\ inbox[s][m].workflowId = i
         /\ inbox[s][n].type \in BroadcastTypes /\ inbox[s][n].workflowId = j

\* every session is in the Map of at most one Durable Object
OneGroupPerSession ==
  \A s \in SessionIds : Cardinality({i \in WorkflowIds : s \in Registered(i)}) <= 1

\* C21: some session comes to be a member of the groups of two workflow ids
\* and to hold the broadcasts of both
C21_SessionInTwoGroups == <>(\E s \in SessionIds : InTwoGroups(s))

\* the sessions a broadcast on instance inst for workflowId is meant for
Targets(inst, workflowId) ==
  {s \in SeqToSet(sessions[inst]) : sessWid[s] = workflowId}

\* C26: a broadcast leaves the registry as it is and sends exactly one
\* message to each session that was registered for the id when it started,
\* and nothing to any other session, removed ones included
C26_BroadcastOverSnapshot ==
  [][nBroadcasts' # nBroadcasts
       => /\ sessions' = sessions
          /\ \A s \in SessionIds :
               IF s \in Targets(lastBroadcast'.inst, lastBroadcast'.workflowId)
                 THEN /\ Len(inbox'[s]) = Len(inbox[s]) + 1
                      /\ SubSeq(inbox'[s], 1, Len(inbox[s])) = inbox[s]
                 ELSE /\ inbox'[s] = inbox[s]
                      /\ s \in failedSends' => s \in failedSends]_vars

\* a broadcast for the id of s and t came after s was removed: t has it and
\* s has nothing of it
C26_Witness ==
  /\ nBroadcasts > 0
  /\ lastBroadcast.inst = lastBroadcast.workflowId
  /\ \E s \in SessionIds, t \in SessionIds :
       /\ s # t
       /\ sessWid[s] = lastBroadcast.workflowId
       /\ sessWid[t] = lastBroadcast.workflowId
       /\ Removed(s)
       /\ Len(inbox[s]) = 1
       /\ t \in Registered(lastBroadcast.inst)
       /\ GotBroadcast(t)

\* C29: once session s is removed it stays removed, nothing more is put on
\* its socket or tried on it, its interval is never set again, and the next
\* tick of the interval clears it
C29_SilentAfterRemoval ==
  [][\A s \in SessionIds :
       Removed(s)
         => /\ Removed(s)'
            /\ inbox'[s] = inbox[s]
            /\ s \in failedSends' => s \in failedSends
            /\ timer'[s] => timer[s]
            /\ PeriodicTick(s) => ~timer'[s]]_vars

\* s was removed, was sent an inbound message and a tick afterwards, and has
\* only its confirmation; its interval is cleared
C29_Witness ==
  \E s \in SessionIds :
    /\ Removed(s)
    /\ ~timer[s]
    /\ Len(inbox[s]) = 1
    /\ s \notin failedSends

\* C30: the socket end the HTTP client of a connection holds is the peer of
\* the socket stored in its session, and what the manager sends on that
\* socket arrives at the client
C30_ClientHoldsPeer ==
  \A s \in SessionIds :
    sock[s] # "unused"
      => /\ Peer(RouteSockets(s).returned) = SessionSocket(s)
         /\ ClientReceives(s) = inbox[s]

====
